---------------------------- MODULE Spec2Model ----------------------------
(***************************************************************************)
(* Model of src/monochromator.py: the protocol client of an Oriel          *)
(* Cornerstone 260 monochromator.                                          *)
(*                                                                         *)
(* Text is a sequence of one-character strings.  One action per public     *)
(* method; an action runs the whole method, every transport call it makes  *)
(* included, against a device whose replies are chosen by the environment. *)
(* The transport (serial.Serial) is the external collaborator: a write or  *)
(* read on a port that is not open raises, close() is harmless on a closed *)
(* port, and read_until returns what is buffered (here: nothing) when the  *)
(* timeout elapses before a terminator arrives.                            *)
(***************************************************************************)
EXTENDS Integers, Sequences, FiniteSets, TLC

VARIABLES
    com,      \* state of the transport self._com: "open" or "closed"; "none" when
              \* __init__ failed before binding self._com
    inbuf,    \* lines the device has sent and the client has not read yet
    wire,     \* transport calls made by the last method call, in order
    call,     \* the last method call: its name, arguments, transport state before
    result    \* what the last method call returned or raised

vars == <<com, inbuf, wire, call, result>>

----------------------------------------------------------------------------
(* Bounds of the model                                                     *)

\* filter positions tried are MinPosArg .. MaxPosArg
MaxPosArg == 7
\* labels tried have 0 .. MaxLabelLen characters
MaxLabelLen == 9
\* step counts, grating, port and slit numbers and widths tried are
\* -1 .. MaxNumArg
MaxNumArg == 1

MinPosArg == 0 - 1

----------------------------------------------------------------------------
(* Text                                                                    *)

\* self.term_chars
term_chars == <<"\r", "\n">>

\* the characters str.rstrip() removes
Whitespace == {" ", "\t", "\n", "\r", "\f"}

LowerCase == <<"a","b","c","d","e","f","g","h","i","j","k","l","m",
               "n","o","p","q","r","s","t","u","v","w","x","y","z">>
UpperCase == <<"A","B","C","D","E","F","G","H","I","J","K","L","M",
               "N","O","P","Q","R","S","T","U","V","W","X","Y","Z">>

\* str.upper(), one character
UpperChar(c) ==
    IF \E i \in 1..26 : LowerCase[i] = c
    THEN UpperCase[CHOOSE i \in 1..26 : LowerCase[i] = c]
    ELSE c

\* str.upper()
upper(s) == [i \in 1..Len(s) |-> UpperChar(s[i])]

\* str.rstrip(): drop the trailing whitespace
RECURSIVE rstrip(_)
rstrip(s) ==
    IF s = <<>> THEN <<>>
    ELSE IF s[Len(s)] \in Whitespace THEN rstrip(SubSeq(s, 1, Len(s) - 1))
    ELSE s

\* the leading whitespace int() and float() skip
RECURSIVE lstrip(_)
lstrip(s) ==
    IF s = <<>> THEN <<>>
    ELSE IF s[1] \in Whitespace THEN lstrip(Tail(s))
    ELSE s

\* ' '.join(args)
RECURSIVE join(_)
join(args) ==
    IF args = <<>> THEN <<>>
    ELSE IF Len(args) = 1 THEN args[1]
    ELSE args[1] \o <<" ">> \o join(Tail(args))

\* str.split(','): the fields between the commas, at least one
RECURSIVE split(_)
split(s) ==
    IF \A i \in 1..Len(s) : s[i] # ","
    THEN <<s>>
    ELSE LET k == CHOOSE i \in 1..Len(s) :
                      s[i] = "," /\ \A j \in 1..(i - 1) : s[j] # ","
         IN  <<SubSeq(s, 1, k - 1)>> \o split(SubSeq(s, k + 1, Len(s)))

Digit == <<"0","1","2","3","4","5","6","7","8","9">>
IsDigit(c) == \E d \in 1..10 : Digit[d] = c
DigitVal(c) == (CHOOSE d \in 1..10 : Digit[d] = c) - 1

\* decimal digits of a natural number, as str() prints them
RECURSIVE digits(_)
digits(n) ==
    IF n < 10 THEN <<Digit[n + 1]>>
    ELSE digits(n \div 10) \o <<Digit[(n % 10) + 1]>>

\* str() of an int argument (map(str, args))
str(n) == IF n < 0 THEN <<"-">> \o digits(0 - n) ELSE digits(n)

\* value of a string of digits
RECURSIVE natval(_)
natval(s) ==
    IF s = <<>> THEN 0
    ELSE 10 * natval(SubSeq(s, 1, Len(s) - 1)) + DigitVal(s[Len(s)])

AllDigits(s) == s # <<>> /\ \A i \in 1..Len(s) : IsDigit(s[i])

\* the text after an optional sign
unsigned(s) == IF s # <<>> /\ s[1] \in {"+", "-"} THEN Tail(s) ELSE s
negative(s) == s # <<>> /\ s[1] = "-"

----------------------------------------------------------------------------
(* Values a method returns                                                 *)

\* one shape for every returned value; the fields a kind does not use are empty
Val(kind, s1, s2, n1, n2, b) ==
    [kind |-> kind, s1 |-> s1, s2 |-> s2, n1 |-> n1, n2 |-> n2, b |-> b]

NoneVal == Val("None", <<>>, <<>>, 0, 0, FALSE)
StrVal(s) == Val("str", s, <<>>, 0, 0, FALSE)
IntVal(n) == Val("int", <<>>, <<>>, n, 0, FALSE)
BoolVal(b) == Val("bool", <<>>, <<>>, 0, 0, b)
\* a float with a finite decimal expansion: n1 * 10^(-n2), n1 not a multiple of 10
\* unless n2 = 0
RECURSIVE FloatVal(_, _)
FloatVal(m, e) ==
    IF e > 0 /\ m % 10 = 0 THEN FloatVal(m \div 10, e - 1)
    ELSE Val("float", <<>>, <<>>, m, e, FALSE)
\* Response(statement, response)
Response(statement, response) == Val("Response", statement, response, 0, 0, FALSE)
\* {'number': .., 'lines': .., 'label': ..}
GratingVal(number, lines, label) == Val("dict", label, <<>>, number, lines, FALSE)

\* int(s): [ok, n]; ok is FALSE where int() raises ValueError
int(s) ==
    LET t == rstrip(lstrip(s))
        u == unsigned(t)
    IN  IF AllDigits(u)
        THEN [ok |-> TRUE, n |-> IF negative(t) THEN 0 - natval(u) ELSE natval(u)]
        ELSE [ok |-> FALSE, n |-> 0]

\* float(s) for plain decimal text: [ok, v]; ok is FALSE where float() raises
\* ValueError
float(s) ==
    LET t == rstrip(lstrip(s))
        u == unsigned(t)
        dots == {i \in 1..Len(u) : u[i] = "."}
        k == IF dots = {} THEN Len(u) + 1 ELSE CHOOSE i \in dots : TRUE
        ip == SubSeq(u, 1, k - 1)
        fp == SubSeq(u, k + 1, Len(u))
        good == /\ Cardinality(dots) <= 1
                /\ ip \o fp # <<>>
                /\ \A i \in 1..Len(ip) : IsDigit(ip[i])
                /\ \A i \in 1..Len(fp) : IsDigit(fp[i])
        m == natval(ip \o fp)
    IN  IF good
        THEN [ok |-> TRUE,
              v |-> FloatVal(IF negative(t) THEN 0 - m ELSE m, Len(fp))]
        ELSE [ok |-> FALSE, v |-> NoneVal]

\* f'{wavelength:.3f}' of the wavelength n / 10000 nm, n not ending in the digit 5
\* (a decimal tie is never an exact binary float, so ties are not drawn)
format3f(n) ==
    LET a == IF n < 0 THEN 0 - n ELSE n
        r == (a + 5) \div 10
        f == r % 1000
    IN  (IF n < 0 THEN <<"-">> ELSE <<>>)
        \o digits(r \div 1000) \o <<".">>
        \o <<Digit[(f \div 100) + 1], Digit[((f \div 10) % 10) + 1], Digit[(f % 10) + 1]>>

----------------------------------------------------------------------------
(* The running method call: transport state, calls made so far, exception  *)
(* raised (if any) and the value of the last expression                    *)

Start ==
    [com |-> com, inbuf |-> inbuf, wire |-> <<>>, exc |-> "none", ret |-> NoneVal]

Event(ev, data, ok) == [ev |-> ev, data |-> data, ok |-> ok]

raise(st, exc) == [st EXCEPT !.exc = exc, !.ret = NoneVal]

\* connect leaving an open transport alone
connect_if_closed(st, avail) ==
    IF st.com = "open" THEN [st EXCEPT !.ret = NoneVal]
    ELSE LET s1 == [st EXCEPT !.wire = Append(@, Event("open", <<>>, avail))]
         IN  IF ~avail THEN raise(s1, "SerialException")
             ELSE [s1 EXCEPT !.com = "open", !.ret = NoneVal]

\* Monochromator.connect: self._com.open().  `avail` is whether the port can be
\* opened; open() on an open port raises
connect(st, avail) ==
    LET s1 == [st EXCEPT !.wire = Append(@, Event("open", <<>>, st.com # "open" /\ avail))]
    IN  IF st.com = "open" \/ ~avail
        THEN raise(s1, "SerialException")
        ELSE [s1 EXCEPT !.com = "open", !.ret = NoneVal]

\* disconnect refusing a transport that is closed already
disconnect_strict(st) ==
    IF st.com # "open" THEN raise(st, "SerialException")
    ELSE [st EXCEPT !.wire = Append(@, Event("close", <<>>, TRUE)),
                    !.com = "closed", !.inbuf = <<>>, !.ret = NoneVal]

\* Monochromator.disconnect: self._com.close(), which does nothing on a closed port
disconnect(st) ==
    [st EXCEPT !.wire = Append(@, Event("close", <<>>, TRUE)),
               !.com = "closed", !.inbuf = <<>>, !.ret = NoneVal]

\* Monochromator.__del__: self._com.close().  When __init__ raised before
\* self._com was bound, the lookup of self._com goes to __getattr__, which
\* looks up self._com again, without end: RecursionError
__del__(st) ==
    IF st.com = "none" THEN raise(st, "RecursionError")
    ELSE [st EXCEPT !.wire = Append(@, Event("close", <<>>, TRUE)),
                    !.com = "closed", !.inbuf = <<>>, !.ret = NoneVal]

\* write without the case folding
write_as_given(st, msg, reply) ==
    IF st.exc # "none" THEN st
    ELSE LET m1 == msg \o term_chars
         IN  IF st.com # "open"
             THEN raise([st EXCEPT !.wire = Append(@, Event("write", m1, FALSE))],
                        "SerialException")
             ELSE [st EXCEPT !.wire = Append(@, Event("write", m1, TRUE)),
                             !.inbuf = @ \o reply,
                             !.ret = IntVal(Len(m1))]

\* Monochromator.write.  `reply` is the lines the device sends back for this
\* message (none if it stays silent)
write(st, msg, reply) ==
    IF st.exc # "none" THEN st
    ELSE LET m1 == msg \o term_chars
             m2 == upper(m1)
         IN  IF st.com # "open"
             THEN raise([st EXCEPT !.wire = Append(@, Event("write", m2, FALSE))],
                        "SerialException")
             ELSE [st EXCEPT !.wire = Append(@, Event("write", m2, TRUE)),
                             !.inbuf = @ \o reply,
                             !.ret = IntVal(Len(m2))]

\* Monochromator.read: one line up to and including the terminator, or what
\* arrived before the timeout
read(st) ==
    IF st.exc # "none" THEN st
    ELSE IF st.com # "open"
         THEN raise([st EXCEPT !.wire = Append(@, Event("read", <<>>, FALSE))],
                    "SerialException")
         ELSE IF st.inbuf = <<>>
              THEN [st EXCEPT !.wire = Append(@, Event("read", <<>>, TRUE)),
                              !.ret = StrVal(<<>>)]
              ELSE [st EXCEPT !.wire = Append(@, Event("read", Head(st.inbuf), TRUE)),
                              !.inbuf = Tail(@),
                              !.ret = StrVal(Head(st.inbuf))]

\* command putting a space before each argument only
command_bare(st, cmd, args, reply) ==
    LET msg == IF args = <<>> THEN cmd ELSE cmd \o <<" ">> \o join(args)
        s1 == write(st, msg, reply)
        s2 == read(s1)
    IN  IF s2.exc # "none" THEN s2
        ELSE [s2 EXCEPT !.ret = StrVal(rstrip(s2.ret.s1))]

\* command returning the line as read, terminator included
command_raw(st, cmd, args, reply) ==
    LET msg == cmd \o <<" ">> \o join(args)
        s1 == write(st, msg, reply)
    IN  read(s1)

\* Monochromator.command; args are the arguments already through map(str, args)
command(st, cmd, args, reply) ==
    LET msg == cmd \o <<" ">> \o join(args)
        s1 == write(st, msg, reply)
        s2 == read(s1)
    IN  IF s2.exc # "none" THEN s2
        ELSE [s2 EXCEPT !.ret = StrVal(rstrip(s2.ret.s1))]

\* query reading the payload line only, not the echo before it
query_one_read(st, msg, reply) ==
    IF st.exc # "none" THEN st
    ELSE IF msg = <<>> THEN raise(st, "IndexError")
    ELSE LET m1 == IF msg[Len(msg)] # "?" THEN msg \o <<"?">> ELSE msg
             s1 == write(st, m1, reply)
             s2 == read(s1)
         IN  IF s2.exc # "none" THEN s2
             ELSE [s2 EXCEPT !.ret = Response(upper(m1), rstrip(s2.ret.s1))]

\* query appending '?' without looking at the end of the message
query_always_suffix(st, msg, reply) ==
    IF st.exc # "none" THEN st
    ELSE IF msg = <<>> THEN raise(st, "IndexError")
    ELSE LET m1 == msg \o <<"?">>
             s1 == write(st, m1, reply)
             s2 == read(s1)
             s3 == read(s2)
         IN  IF s3.exc # "none" THEN s3
             ELSE [s3 EXCEPT !.ret = Response(rstrip(s2.ret.s1), rstrip(s3.ret.s1))]

\* Monochromator.query
query(st, msg, reply) ==
    IF st.exc # "none" THEN st
    ELSE IF msg = <<>> THEN raise(st, "IndexError")
    ELSE LET m1 == IF msg[Len(msg)] # "?" THEN msg \o <<"?">> ELSE msg
             s1 == write(st, m1, reply)
             s2 == read(s1)
             s3 == read(s2)
         IN  IF s3.exc # "none" THEN s3
             ELSE [s3 EXCEPT !.ret = Response(rstrip(s2.ret.s1), rstrip(s3.ret.s1))]

----------------------------------------------------------------------------
(* High level methods                                                      *)

MIN_VAL == 1
MAX_VAL == 6
\* the longest label filter_label accepts
LABEL_MAX == 8

\* _validate_filter with the upper end of the range off by one
_validate_filter_off_by_one(st, pos) ==
    IF st.exc # "none" THEN st
    ELSE IF (pos < MIN_VAL) \/ (pos > MAX_VAL + 1) THEN raise(st, "ValueError")
    ELSE [st EXCEPT !.ret = BoolVal(TRUE)]

\* Monochromator._validate_filter
_validate_filter(st, pos) ==
    IF st.exc # "none" THEN st
    ELSE IF (pos < MIN_VAL) \/ (pos > MAX_VAL) THEN raise(st, "ValueError")
    ELSE [st EXCEPT !.ret = BoolVal(TRUE)]

\* Monochromator.info
info(st, reply) ==
    LET resp == query(st, <<"i", "n", "f", "o">>, reply)
    IN  IF resp.exc # "none" THEN resp
        ELSE [resp EXCEPT !.ret = StrVal(resp.ret.s2)]

\* Monochromator.position
position(st, reply) ==
    LET resp == query(st, <<"w", "a", "v", "e">>, reply)
    IN  IF resp.exc # "none" THEN resp
        ELSE IF float(resp.ret.s2).ok
             THEN [resp EXCEPT !.ret = float(resp.ret.s2).v]
             ELSE raise(resp, "ValueError")

\* Monochromator.step
step(st, steps, reply) ==
    LET s1 == command(st, <<"s", "t", "e", "p">>, <<str(steps)>>, reply)
    IN  IF s1.exc # "none" THEN s1 ELSE [s1 EXCEPT !.ret = NoneVal]

\* goto trusting the acknowledgement: returns the requested wavelength
goto_echo(st, n, reply1, reply2) ==
    LET wavelength == format3f(n)
        s1 == command(st, <<"g", "o", "w", "a", "v", "e">>, <<wavelength>>, reply1)
        s2 == query(s1, <<"w", "a", "v", "e">>, reply2)
    IN  IF s2.exc # "none" THEN s2
        ELSE [s2 EXCEPT !.ret = float(wavelength).v]

\* Monochromator.goto; the wavelength is n / 10000 nm
goto(st, n, reply1, reply2) ==
    LET wavelength == format3f(n)
        s1 == command(st, <<"g", "o", "w", "a", "v", "e">>, <<wavelength>>, reply1)
    IN  position(s1, reply2)

\* Monochromator.abort
abort(st, reply) ==
    LET s1 == command(st, <<"a", "b", "o", "r", "t">>, <<>>, reply)
    IN  IF s1.exc # "none" THEN s1 ELSE [s1 EXCEPT !.ret = NoneVal]

\* Monochromator.grating: the dict display evaluates int(resp[0]), int(resp[1]),
\* resp[2] in this order
grating(st, reply) ==
    LET s1 == query(st, <<"g", "r", "a", "t">>, reply)
        resp == split(s1.ret.s2)
    IN  IF s1.exc # "none" THEN s1
        ELSE IF ~int(resp[1]).ok THEN raise(s1, "ValueError")
        ELSE IF Len(resp) < 2 THEN raise(s1, "IndexError")
        ELSE IF ~int(resp[2]).ok THEN raise(s1, "ValueError")
        ELSE IF Len(resp) < 3 THEN raise(s1, "IndexError")
        ELSE [s1 EXCEPT !.ret = GratingVal(int(resp[1]).n, int(resp[2]).n, resp[3])]

\* Monochromator.set_grating
set_grating(st, g, reply) ==
    LET s1 == command(st, <<"g", "r", "a", "t">>, <<str(g)>>, reply)
    IN  IF s1.exc # "none" THEN s1 ELSE [s1 EXCEPT !.ret = NoneVal]

\* Monochromator.filter
filter(st, reply) ==
    LET resp == query(st, <<"f", "i", "l", "t", "e", "r">>, reply)
    IN  IF resp.exc # "none" THEN resp
        ELSE IF int(resp.ret.s2).ok
             THEN [resp EXCEPT !.ret = IntVal(int(resp.ret.s2).n)]
             ELSE raise(resp, "ValueError")

\* Monochromator.set_filter
set_filter(st, pos, reply) ==
    LET s1 == _validate_filter(st, pos)
        s2 == command(s1, <<"f", "i", "l", "t", "e", "r">>, <<str(pos)>>, reply)
    IN  IF s2.exc # "none" THEN s2 ELSE [s2 EXCEPT !.ret = NoneVal]

\* Monochromator.filter_label.  Its first statement calls
\* self._validate_filter() without the position, which raises TypeError (the
\* required argument is missing) on every call; the rest is as written.
\* `given` is whether label is not None
filter_label(st, filt, given, label, reply1, reply2) ==
    LET s0 == raise(st, "TypeError")
        cmd == <<"f", "i", "l", "t", "e", "r">> \o str(filt) \o <<"l", "a", "b", "e", "l">>
        s1 == IF ~given \/ s0.exc # "none" THEN s0
              ELSE IF Len(label) > LABEL_MAX THEN raise(s0, "ValueError")
              ELSE command(s0, cmd, <<label>>, reply1)
        resp == query(s1, cmd, reply2)
    IN  IF resp.exc # "none" THEN resp
        ELSE [resp EXCEPT !.ret = StrVal(resp.ret.s2)]

\* shuttered taking every answer but 'O' for closed
shuttered_not_open(st, reply) ==
    LET resp == query(st, <<"s", "h", "u", "t", "t", "e", "r">>, reply)
    IN  IF resp.exc # "none" THEN resp
        ELSE [resp EXCEPT !.ret = BoolVal(resp.ret.s2 # <<"O">>)]

\* Monochromator.shuttered
shuttered(st, reply) ==
    LET resp == query(st, <<"s", "h", "u", "t", "t", "e", "r">>, reply)
    IN  IF resp.exc # "none" THEN resp
        ELSE [resp EXCEPT !.ret = BoolVal(resp.ret.s2 = <<"C">>)]

\* Monochromator.shutter
shutter(st, close, reply) ==
    LET cmd == IF close THEN <<"C">> ELSE <<"O">>
        s1 == command(st, <<"s", "h", "u", "t", "t", "e", "r">>, <<cmd>>, reply)
    IN  IF s1.exc # "none" THEN s1 ELSE [s1 EXCEPT !.ret = NoneVal]

\* Monochromator.outport
outport(st, reply) ==
    LET resp == query(st, <<"o", "u", "t", "p", "o", "r", "t">>, reply)
    IN  IF resp.exc # "none" THEN resp
        ELSE IF int(resp.ret.s2).ok
             THEN [resp EXCEPT !.ret = IntVal(int(resp.ret.s2).n)]
             ELSE raise(resp, "ValueError")

\* Monochromator.set_outport
set_outport(st, port, reply) ==
    LET s1 == command(st, <<"o", "u", "t", "p", "o", "r", "t">>, <<str(port)>>, reply)
    IN  IF s1.exc # "none" THEN s1 ELSE [s1 EXCEPT !.ret = NoneVal]

\* slit_width trusting the value it has just set
slit_width_echo(st, slit, given, width, reply1, reply2) ==
    LET cmd == <<"s", "l", "i", "t">> \o str(slit) \o <<"m", "i", "c", "r", "o", "n", "s">>
        s1 == IF given THEN command(st, cmd, <<str(width)>>, reply1) ELSE st
        resp == query(s1, cmd, reply2)
    IN  IF resp.exc # "none" THEN resp
        ELSE IF given THEN [resp EXCEPT !.ret = IntVal(width)]
        ELSE IF int(resp.ret.s2).ok
             THEN [resp EXCEPT !.ret = IntVal(int(resp.ret.s2).n)]
             ELSE raise(resp, "ValueError")

\* Monochromator.slit_width; `given` is whether width is not None
slit_width(st, slit, given, width, reply1, reply2) ==
    LET cmd == <<"s", "l", "i", "t">> \o str(slit) \o <<"m", "i", "c", "r", "o", "n", "s">>
        s1 == IF given THEN command(st, cmd, <<str(width)>>, reply1) ELSE st
        resp == query(s1, cmd, reply2)
    IN  IF resp.exc # "none" THEN resp
        ELSE IF int(resp.ret.s2).ok
             THEN [resp EXCEPT !.ret = IntVal(int(resp.ret.s2).n)]
             ELSE raise(resp, "ValueError")

----------------------------------------------------------------------------
(* The environment: arguments tried and replies of the device              *)

Positions == MinPosArg..MaxPosArg
Nums == (0 - 1)..MaxNumArg

LabelText == <<"v", "i", "s", " ", "b", "l", "u", "e", "1", "2", "3", "4">>
\* the empty label and the labels around the longest accepted one
Labels == {SubSeq(LabelText, 1, k) : k \in {0} \cup ((LABEL_MAX - 1)..MaxLabelLen)}

\* wavelengths in 1/10000 nm: 500.0, 499.9984, -0.0004, 1234.5678
Wavelengths == {5000000, 4999984, 0 - 4, 12345678}

Messages == {<<"w", "a", "v", "e">>, <<"w", "a", "v", "e", "?">>, <<"G", "r", "a", "t">>, <<"a", "?", "?">>, <<"?">>, <<>>}
Commands == {<<"a", "b", "o", "r", "t">>, <<"S", "t", "e", "p">>, <<>>}
ArgLists == {<<>>, <<str(5)>>, <<str(0 - 1), <<"a", "b">>>>}

\* a line as the device sends it
Line(s) == s \o term_chars

FloatPayloads == {<<"4", "9", "9", ".", "9", "9", "8">>, <<"5", "0", "0", ".", "0", "0", "0">>, <<"-", "1">>, <<"a", "b", "c">>, <<>>}
IntPayloads == {<<"3">>, <<" ", "4", "2">>, <<"4", ".", "0">>, <<>>}
LabelPayloads == {<<"V", "I", "S">>, <<"b", "l", "u", "e", " ">>}
TextPayloads == {<<"C", "S", "2", "6", "0">>, <<"v", "i", "s", " ">>, <<>>}
ShutterPayloads == {<<"C">>, <<"O">>, <<"c">>, <<"C", "X">>, <<"C", " ">>, <<" ", "C">>, <<>>}
GratingPayloads == {<<"1", ",", "1", "2", "0", "0", ",", "V", "I", "S">>, <<"1", ",", "1", "2", "0", "0">>, <<"1", ",", "1", "2", "0", "0", ",", "V", "I", "S", ",", "X">>, <<"x", ",", "1", "2", "0", "0", ",", "V", "I", "S">>,
                    <<"1", ",", "y", ",", "V", "I", "S">>, <<"2", ",", " ", "6", "0", "0", " ", ",">>, <<"7">>, <<>>}

\* what the device sends back for a command: the acknowledgement line, or
\* nothing before the timeout
CommandReplies(msg) == {<<>>, <<Line(upper(msg))>>, <<Line(<<"o", "k", " ">>)>>}

\* the same for the set command of a method that queries afterwards
AckReplies(msg) == {<<>>, <<Line(upper(msg))>>}

\* what the device sends back for a query: the echoed statement and the payload;
\* nothing, or the echo alone, before the timeout
QueryReplies(msg, payloads) ==
    {<<>>, <<Line(upper(msg))>>} \cup {<<Line(upper(msg)), Line(p)>> : p \in payloads}

\* the same without the lone echo
QueryAnswers(msg, payloads) ==
    {<<>>} \cup {<<Line(upper(msg)), Line(p)>> : p \in payloads}

----------------------------------------------------------------------------
(* Actions: one per public method                                          *)

Call(op, text, args, n, w, given) ==
    [op |-> op, pre |-> com, text |-> text, args |-> args, n |-> n, w |-> w,
     given |-> given]

\* the object can be called: it was constructed and is not torn down
Live == com # "none" /\ call.op # "__del__"

\* the method call has run to its end in st
Finish(c, st) ==
    /\ Live
    /\ com' = st.com
    /\ inbuf' = st.inbuf
    /\ wire' = st.wire
    /\ call' = c
    /\ result' = [exc |-> st.exc, ret |-> st.ret]

\* Monochromator.__init__: serial.Serial(port, timeout = timeout) opens the
\* port, or raises and leaves self._com unbound
Init ==
    /\ com \in {"open", "none"}
    /\ inbuf = <<>>
    /\ wire = <<>>
    /\ call = [op |-> "__init__", pre |-> "none", text |-> <<>>, args |-> <<>>,
               n |-> 0, w |-> 0, given |-> FALSE]
    /\ result = [exc |-> IF com = "open" THEN "none" ELSE "SerialException",
                 ret |-> NoneVal]

\* the object is torn down, once, whether or not __init__ succeeded
DoDel ==
    /\ call.op # "__del__"
    /\ LET st == __del__(Start)
       IN  /\ com' = st.com
           /\ inbuf' = st.inbuf
           /\ wire' = st.wire
           /\ call' = Call("__del__", <<>>, <<>>, 0, 0, FALSE)
           /\ result' = [exc |-> st.exc, ret |-> st.ret]

\* messages written raw, which the device does not answer
RawMessages == {<<>>, <<"g", "o">>, <<"A", "b", " ", "1">>}

DoWrite ==
    \E msg \in RawMessages :
        Finish(Call("write", msg, <<>>, 0, 0, FALSE), write(Start, msg, <<>>))

DoRead ==
    Finish(Call("read", <<>>, <<>>, 0, 0, FALSE), read(Start))

DoConnect ==
    \E avail \in BOOLEAN :
        Finish(Call("connect", <<>>, <<>>, 0, 0, avail), connect(Start, avail))

DoDisconnect ==
    Finish(Call("disconnect", <<>>, <<>>, 0, 0, FALSE), disconnect(Start))

DoCommand ==
    \E cmd \in Commands, args \in ArgLists :
        \E reply \in CommandReplies(cmd \o <<" ">> \o join(args)) :
            Finish(Call("command", cmd, args, 0, 0, FALSE),
                   command(Start, cmd, args, reply))

DoQuery ==
    \E msg \in Messages :
        \E reply \in QueryReplies(msg, TextPayloads) :
            Finish(Call("query", msg, <<>>, 0, 0, FALSE), query(Start, msg, reply))

DoInfo ==
    \E reply \in QueryReplies(<<"i", "n", "f", "o", "?">>, TextPayloads) :
        Finish(Call("info", <<>>, <<>>, 0, 0, FALSE), info(Start, reply))

DoPosition ==
    \E reply \in QueryReplies(<<"w", "a", "v", "e", "?">>, FloatPayloads) :
        Finish(Call("position", <<>>, <<>>, 0, 0, FALSE), position(Start, reply))

DoStep ==
    \E steps \in Nums :
        \E reply \in CommandReplies(<<"s", "t", "e", "p", " ">> \o str(steps)) :
            Finish(Call("step", <<>>, <<>>, steps, 0, FALSE), step(Start, steps, reply))

DoGoto ==
    \E n \in Wavelengths :
        \E reply1 \in AckReplies(<<"g", "o", "w", "a", "v", "e", " ">> \o format3f(n)),
           reply2 \in QueryReplies(<<"w", "a", "v", "e", "?">>, FloatPayloads) :
            Finish(Call("goto", <<>>, <<>>, n, 0, FALSE), goto(Start, n, reply1, reply2))

DoAbort ==
    \E reply \in CommandReplies(<<"a", "b", "o", "r", "t", " ">>) :
        Finish(Call("abort", <<>>, <<>>, 0, 0, FALSE), abort(Start, reply))

DoGrating ==
    \E reply \in QueryReplies(<<"g", "r", "a", "t", "?">>, GratingPayloads) :
        Finish(Call("grating", <<>>, <<>>, 0, 0, FALSE), grating(Start, reply))

DoSetGrating ==
    \E g \in Nums :
        \E reply \in CommandReplies(<<"g", "r", "a", "t", " ">> \o str(g)) :
            Finish(Call("set_grating", <<>>, <<>>, g, 0, FALSE),
                   set_grating(Start, g, reply))

DoFilter ==
    \E reply \in QueryReplies(<<"f", "i", "l", "t", "e", "r", "?">>, IntPayloads) :
        Finish(Call("filter", <<>>, <<>>, 0, 0, FALSE), filter(Start, reply))

DoSetFilter ==
    \E pos \in Positions :
        \E reply \in CommandReplies(<<"f", "i", "l", "t", "e", "r", " ">> \o str(pos)) :
            Finish(Call("set_filter", <<>>, <<>>, pos, 0, FALSE),
                   set_filter(Start, pos, reply))

DoFilterLabel ==
    \E filt \in Positions, given \in BOOLEAN, label \in Labels :
        /\ given \/ label = <<>>
        /\ \E reply1 \in AckReplies(<<"f", "i", "l", "t", "e", "r">> \o str(filt) \o <<"l", "a", "b", "e", "l", " ">> \o label),
              reply2 \in QueryAnswers(<<"f", "i", "l", "t", "e", "r">> \o str(filt) \o <<"l", "a", "b", "e", "l", "?">>, LabelPayloads) :
               Finish(Call("filter_label", label, <<>>, filt, 0, given),
                      filter_label(Start, filt, given, label, reply1, reply2))

DoShuttered ==
    \E reply \in QueryReplies(<<"s", "h", "u", "t", "t", "e", "r", "?">>, ShutterPayloads) :
        Finish(Call("shuttered", <<>>, <<>>, 0, 0, FALSE), shuttered(Start, reply))

DoShutter ==
    \E close \in BOOLEAN :
        \E reply \in CommandReplies(<<"s", "h", "u", "t", "t", "e", "r", " ">> \o (IF close THEN <<"C">> ELSE <<"O">>)) :
            Finish(Call("shutter", <<>>, <<>>, 0, 0, close), shutter(Start, close, reply))

DoOutport ==
    \E reply \in QueryReplies(<<"o", "u", "t", "p", "o", "r", "t", "?">>, IntPayloads) :
        Finish(Call("outport", <<>>, <<>>, 0, 0, FALSE), outport(Start, reply))

DoSetOutport ==
    \E port \in Nums :
        \E reply \in CommandReplies(<<"o", "u", "t", "p", "o", "r", "t", " ">> \o str(port)) :
            Finish(Call("set_outport", <<>>, <<>>, port, 0, FALSE),
                   set_outport(Start, port, reply))

DoSlitWidth ==
    \E slit \in Nums, given \in BOOLEAN, width \in Nums :
        /\ given \/ width = 0
        /\ \E reply1 \in AckReplies(<<"s", "l", "i", "t">> \o str(slit) \o <<"m", "i", "c", "r", "o", "n", "s", " ">> \o str(width)),
              reply2 \in QueryReplies(<<"s", "l", "i", "t">> \o str(slit) \o <<"m", "i", "c", "r", "o", "n", "s", "?">>, IntPayloads) :
               Finish(Call("slit_width", <<>>, <<>>, slit, width, given),
                      slit_width(Start, slit, given, width, reply1, reply2))

Next ==
    \/ DoDel
    \/ DoConnect
    \/ DoDisconnect
    \/ DoWrite
    \/ DoRead
    \/ DoCommand
    \/ DoQuery
    \/ DoInfo
    \/ DoPosition
    \/ DoStep
    \/ DoGoto
    \/ DoAbort
    \/ DoGrating
    \/ DoSetGrating
    \/ DoFilter
    \/ DoSetFilter
    \/ DoFilterLabel
    \/ DoShuttered
    \/ DoShutter
    \/ DoOutport
    \/ DoSetOutport
    \/ DoSlitWidth

Spec == Init /\ [][Next]_vars

----------------------------------------------------------------------------
(* Properties                                                              *)

\* the kinds of the transport calls of the last method call, in order
Evs == [i \in 1..Len(wire) |-> wire[i].ev]

\* every transport call of the last method call went through
AllOk == \A i \in 1..Len(wire) : wire[i].ok

\* x is raw without its trailing whitespace
IsStripped(x, raw) ==
    /\ Len(x) <= Len(raw)
    /\ SubSeq(raw, 1, Len(x)) = x
    /\ x = <<>> \/ x[Len(x)] \notin Whitespace
    /\ \A i \in (Len(x) + 1)..Len(raw) : raw[i] \in Whitespace

\* a line without the terminator that ends it
Unterminated(line) ==
    IF Len(line) >= 2 /\ SubSeq(line, Len(line) - 1, Len(line)) = term_chars
    THEN SubSeq(line, 1, Len(line) - 2)
    ELSE line

\* C1: on an open transport set_filter(p) with 1 <= p <= 6 makes exactly one
\* command exchange, 'FILTER p', and does not raise; with p outside [1, 6] it
\* raises the validation error and makes no transport call at all, neither a
\* write nor a read.
C1_SetFilterValidated ==
    call.op = "set_filter" =>
        IF 1 <= call.n /\ call.n <= 6
        THEN /\ result.exc # "ValueError"
             /\ call.pre = "open" =>
                   /\ result.exc = "none"
                   /\ Evs = <<"write", "read">>
                   /\ wire[1].data = <<"F", "I", "L", "T", "E", "R", " ">> \o <<Digit[call.n + 1]>> \o <<"\r", "\n">>
        ELSE /\ result.exc = "ValueError"
             /\ wire = <<>>

C1_Witness ==
    /\ call.op = "set_filter" /\ call.n = 6 /\ call.pre = "open"
    /\ result.exc = "none"
    /\ Evs = <<"write", "read">>

\* C2: filter_label(n, L) with n in [1, 6] and len(L) > 8 raises the
\* label-too-long validation error, and no transport write has been made.
C2_LongLabelRejected ==
    (call.op = "filter_label" /\ call.n \in 1..6 /\ call.given /\ Len(call.text) > 8) =>
        /\ result.exc = "ValueError"
        /\ \A i \in 1..Len(wire) : wire[i].ev # "write"

\* C3: on an open transport filter_label(n, L) with n in [1, 6] and
\* len(L) <= 8 does not raise: one command exchange 'FILTERnLABEL L', then one
\* query exchange 'FILTERnLABEL?', and the payload line of that query returned.
C3_ShortLabelRoundTrip ==
    (/\ call.op = "filter_label" /\ call.n \in 1..6 /\ call.given
     /\ Len(call.text) <= 8 /\ call.pre = "open") =>
        /\ result.exc = "none"
        /\ Evs = <<"write", "read", "write", "read", "read">>
        /\ wire[1].data = <<"F", "I", "L", "T", "E", "R">> \o <<Digit[call.n + 1]>> \o <<"L", "A", "B", "E", "L", " ">>
                              \o upper(call.text) \o <<"\r", "\n">>
        /\ wire[3].data = <<"F", "I", "L", "T", "E", "R">> \o <<Digit[call.n + 1]>> \o <<"L", "A", "B", "E", "L", "?", "\r", "\n">>
        /\ result.ret.kind = "str"
        /\ IsStripped(result.ret.s1, wire[5].data)

\* C4: for every non-empty message m that does not end in '?', query(m) and
\* query(m + '?') put the same statement on the wire, upper(m) + '?', which ends
\* in exactly one '?'.
C4_QuerySuffixIdempotent ==
    (call.op = "query" /\ call.pre = "open") =>
        LET given == call.text
            m == IF given # <<>> /\ given[Len(given)] = "?"
                 THEN SubSeq(given, 1, Len(given) - 1)
                 ELSE given
        IN  (m # <<>> /\ m[Len(m)] # "?") =>
                /\ Len(wire) >= 1
                /\ wire[1].ev = "write"
                /\ wire[1].data = upper(m) \o <<"?", "\r", "\n">>
                /\ LET statement == Unterminated(wire[1].data)
                   IN  /\ statement[Len(statement)] = "?"
                       /\ statement[Len(statement) - 1] # "?"

C4_Witness ==
    /\ call.op = "query" /\ call.pre = "open"
    /\ call.text = <<"w", "a", "v", "e", "?">>
    /\ Len(wire) = 3
    /\ wire[1].data = <<"W", "A", "V", "E", "?", "\r", "\n">>

\* the wavelengths tried as Python prints them with three decimal places
Printed3f(n) ==
    CASE n = 5000000 -> <<"5", "0", "0", ".", "0", "0", "0">>
      [] n = 4999984 -> <<"4", "9", "9", ".", "9", "9", "8">>
      [] n = 0 - 4 -> <<"-", "0", ".", "0", "0", "0">>
      [] n = 12345678 -> <<"1", "2", "3", "4", ".", "5", "6", "8">>

\* C5: on an open transport goto(w) makes, in this order, one command exchange
\* 'GOWAVE <w with exactly 3 decimal places>' and one query exchange 'WAVE?',
\* and returns the number in the payload of that query (it raises when the
\* payload is no number), not w.
C5_GotoRequeries ==
    (call.op = "goto" /\ call.pre = "open") =>
        /\ Evs = <<"write", "read", "write", "read", "read">>
        /\ wire[1].data = <<"G", "O", "W", "A", "V", "E", " ">> \o Printed3f(call.n) \o <<"\r", "\n">>
        /\ wire[3].data = <<"W", "A", "V", "E", "?", "\r", "\n">>
        /\ LET payload == float(wire[5].data)
           IN  IF payload.ok
               THEN result.exc = "none" /\ result.ret = payload.v
               ELSE result.exc = "ValueError"
        /\ wire[5].data = <<"4", "9", "9", ".", "9", "9", "8", "\r", "\n">> => result.ret = FloatVal(499998, 3)

C5_Witness ==
    /\ call.op = "goto" /\ call.pre = "open" /\ call.n = 5000000
    /\ wire[1].data = <<"G", "O", "W", "A", "V", "E", " ", "5", "0", "0", ".", "0", "0", "0", "\r", "\n">>
    /\ wire[5].data = <<"4", "9", "9", ".", "9", "9", "8", "\r", "\n">>
    /\ result.exc = "none"
    /\ result.ret = FloatVal(499998, 3)
    /\ result.ret # FloatVal(call.n, 4)

\* C6: the grating getter returns the descriptor exactly when the payload of
\* its query has exactly 3 comma-separated fields of which the first two are
\* integers, and raises for every other payload.
C6_GratingThreeFields ==
    (call.op = "grating" /\ call.pre = "open") =>
        LET fields == split(rstrip(wire[3].data))
        IN  IF Len(fields) = 3 /\ int(fields[1]).ok /\ int(fields[2]).ok
            THEN /\ result.exc = "none"
                 /\ result.ret = GratingVal(int(fields[1]).n, int(fields[2]).n, fields[3])
            ELSE result.exc # "none"

\* C7 as stated: shuttered returns True exactly when the raw response line to
\* 'SHUTTER?' (the line without its terminator) equals 'C'.
C7_ShutteredRawLine ==
    (call.op = "shuttered" /\ call.pre = "open") =>
        /\ result.exc = "none"
        /\ result.ret.b <=> (Unterminated(wire[3].data) = <<"C">>)

\* C7 as amended: shuttered returns True exactly when the response line to
\* 'SHUTTER?' is 'C' followed by nothing but whitespace (the terminator
\* included), and False for every other line: the empty one, 'O', 'c', 'C' after
\* a blank, 'C' followed by another character.
C7_ShutteredStrippedLine ==
    (call.op = "shuttered" /\ call.pre = "open") =>
        /\ result.exc = "none"
        /\ Evs = <<"write", "read", "read">>
        /\ wire[1].data = <<"S", "H", "U", "T", "T", "E", "R", "?", "\r", "\n">>
        /\ result.ret.kind = "bool"
        /\ result.ret.b <=> IsStripped(<<"C">>, wire[3].data)

C7_Witness ==
    /\ call.op = "shuttered" /\ call.pre = "open"
    /\ wire[3].data = <<"C", " ", "\r", "\n">>
    /\ result.ret.b

\* C8: disconnect() never raises and leaves the transport closed, from every
\* state, so also when the transport was closed already (a second call in a
\* row).
C8_DisconnectIdempotent ==
    call.op = "disconnect" =>
        /\ result.exc = "none"
        /\ com = "closed"

C8_Witness ==
    /\ call.op = "disconnect" /\ call.pre = "closed"
    /\ result.exc = "none"
    /\ com = "closed"

\* C9: every call of query(m) on an open transport makes exactly one transport
\* write and then exactly two line reads, and returns the first line as the
\* statement and the second as the response, each without its trailing
\* whitespace.
C9_QueryShape ==
    (call.op = "query" /\ call.pre = "open") =>
        /\ result.exc = "none"
        /\ Evs = <<"write", "read", "read">>
        /\ result.ret.kind = "Response"
        /\ IsStripped(result.ret.s1, wire[2].data)
        /\ IsStripped(result.ret.s2, wire[3].data)

\* C10: every call of command(name, *args) on an open transport makes exactly
\* one transport write and then exactly one line read, and returns that line
\* without its trailing whitespace.
C10_CommandShape ==
    (call.op = "command" /\ call.pre = "open") =>
        /\ result.exc = "none"
        /\ Evs = <<"write", "read">>
        /\ AllOk
        /\ result.ret.kind = "str"
        /\ IsStripped(result.ret.s1, wire[2].data)

C10_Witness ==
    /\ call.op = "command" /\ call.pre = "open"
    /\ Evs = <<"write", "read">>
    /\ wire[2].data = <<"o", "k", " ", "\r", "\n">>
    /\ result.ret = StrVal(<<"o", "k">>)

\* a line that arrived whole, up to its terminator
Terminated(line) ==
    Len(line) >= 2 /\ SubSeq(line, Len(line) - 1, Len(line)) = term_chars

\* d is the text t in upper case
IsUpperOf(d, t) ==
    /\ Len(d) = Len(t)
    /\ \A j \in 1..Len(t) :
          \/ d[j] = t[j] /\ \A k \in 1..26 : t[j] # LowerCase[k]
          \/ \E k \in 1..26 : t[j] = LowerCase[k] /\ d[j] = UpperCase[k]

\* C11: every byte sequence handed to the transport, by whatever method, ends
\* with CR LF, holds CR LF nowhere else and holds no lower-case letter; what
\* write(msg) hands over is msg in upper case followed by CR LF, and it returns
\* the number of bytes the transport took.
C11_Framing ==
    /\ \A i \in 1..Len(wire) :
          wire[i].ev = "write" =>
              LET data == wire[i].data
              IN  /\ Terminated(data)
                  /\ {j \in 1..(Len(data) - 1) : data[j] = "\r" /\ data[j + 1] = "\n"}
                         = {Len(data) - 1}
                  /\ \A j \in 1..Len(data), k \in 1..26 : data[j] # LowerCase[k]
    /\ (call.op = "write" /\ call.pre = "open") =>
          /\ Evs = <<"write">>
          /\ IsUpperOf(Unterminated(wire[1].data), call.text)
          /\ Len(wire[1].data) = Len(call.text) + 2
          /\ result.exc = "none"
          /\ result.ret = IntVal(Len(wire[1].data))
    /\ (call.op = "command" /\ call.pre = "open") =>
          IsUpperOf(Unterminated(wire[1].data), call.text \o <<" ">> \o join(call.args))

C11_Witness ==
    /\ call.op = "write" /\ call.pre = "open"
    /\ call.text = <<"A", "b", " ", "1">>
    /\ wire[1].data = <<"A", "B", " ", "1", "\r", "\n">>
    /\ result.ret = IntVal(6)

\* the methods of the instrument, as opposed to the exchange primitives
HighLevel ==
    call.op \in {"info", "position", "step", "goto", "abort", "grating",
                 "set_grating", "filter", "set_filter", "filter_label",
                 "shuttered", "shutter", "outport", "set_outport", "slit_width"}

\* no read of the last method call ran into the timeout
NoTimeout ==
    \A i \in 1..Len(wire) : wire[i].ev = "read" => Terminated(wire[i].data)

\* a read of the last method call ran into the timeout
TimedOut ==
    \E i \in 1..Len(wire) :
        wire[i].ev = "read" /\ wire[i].ok /\ ~Terminated(wire[i].data)

\* lines the device owes for a message: two for a query, one for a command
Owed(data) ==
    LET m == Unterminated(data)
    IN  IF m # <<>> /\ m[Len(m)] = "?" THEN 2 ELSE 1

\* C12: against a device that answers every command with one line and every
\* query with two, with no timeout, each write of a high-level method is
\* followed by the reads of all the lines owed for it before the next write, and
\* when the method ends no line is left unread.
C12_HalfDuplex ==
    (HighLevel /\ AllOk /\ NoTimeout) =>
        /\ inbuf = <<>>
        /\ \A i \in 1..Len(wire) :
              wire[i].ev = "write" =>
                  /\ i + Owed(wire[i].data) <= Len(wire)
                  /\ \A k \in 1..Owed(wire[i].data) : wire[i + k].ev = "read"
                  /\ i + Owed(wire[i].data) < Len(wire) =>
                        wire[i + Owed(wire[i].data) + 1].ev = "write"

C12_Witness ==
    /\ call.op = "goto"
    /\ AllOk /\ NoTimeout
    /\ Evs = <<"write", "read", "write", "read", "read">>
    /\ inbuf = <<>>

\* C13: no high-level method returns normally when one of its line reads timed
\* out.
C13_TimeoutSurfaces ==
    (HighLevel /\ TimedOut) => result.exc # "none"

\* C14: teardown raises no error and leaves no transport open, after a
\* construction that succeeded and after one that failed.
C14_TeardownReleases ==
    call.op = "__del__" =>
        /\ result.exc = "none"
        /\ com # "open"

\* what a getter makes of the payload of its query
FromPayload(op, payload) ==
    CASE op \in {"info", "filter_label"} ->
             [exc |-> "none", ret |-> StrVal(payload)]
      [] op = "shuttered" ->
             [exc |-> "none", ret |-> BoolVal(payload = <<"C">>)]
      [] op = "position" ->
             IF float(payload).ok THEN [exc |-> "none", ret |-> float(payload).v]
             ELSE [exc |-> "ValueError", ret |-> NoneVal]
      [] op \in {"filter", "outport", "slit_width"} ->
             IF int(payload).ok THEN [exc |-> "none", ret |-> IntVal(int(payload).n)]
             ELSE [exc |-> "ValueError", ret |-> NoneVal]

\* a getter call: a property read, or filter_label (of a filter in [1, 6]) or
\* slit_width without a value
Getter ==
    \/ call.op \in {"info", "position", "grating", "filter", "shuttered", "outport"}
    \/ call.op = "slit_width" /\ ~call.given
    \/ call.op = "filter_label" /\ ~call.given /\ call.n \in 1..6

\* C15: every getter call on an open transport makes its own query exchange and
\* its result is computed from the payload of that exchange alone.
C15_FreshQuery ==
    (Getter /\ call.pre = "open") =>
        /\ Evs = <<"write", "read", "read">>
        /\ call.op # "grating" => result = FromPayload(call.op, rstrip(wire[3].data))

\* a small int as Python prints it
Shown(n) == IF n < 0 THEN <<"-", Digit[(0 - n) + 1]>> ELSE <<Digit[n + 1]>>

\* C16: on an open transport slit_width(slit, width) with a width makes one
\* command exchange 'SLIT<slit>MICRONS <width>' and then one query exchange
\* 'SLIT<slit>MICRONS?', without a width the query exchange alone; either way it
\* returns the integer in the payload of the query (it raises when the payload
\* is no integer), never the width or the acknowledgement.
C16_SlitWidthRequeries ==
    (call.op = "slit_width" /\ call.pre = "open") =>
        LET name == <<"S", "L", "I", "T">> \o Shown(call.n) \o <<"M", "I", "C", "R", "O", "N", "S">>
            payload == int(wire[Len(wire)].data)
        IN  /\ Evs = IF call.given
                     THEN <<"write", "read", "write", "read", "read">>
                     ELSE <<"write", "read", "read">>
            /\ call.given => wire[1].data = name \o <<" ">> \o Shown(call.w) \o <<"\r", "\n">>
            /\ wire[Len(wire) - 2].data = name \o <<"?", "\r", "\n">>
            /\ IF payload.ok
               THEN result.exc = "none" /\ result.ret = IntVal(payload.n)
               ELSE result.exc = "ValueError"

C16_Witness ==
    /\ call.op = "slit_width" /\ call.pre = "open"
    /\ call.given /\ call.n = 1 /\ call.w = 0
    /\ wire[1].data = <<"S", "L", "I", "T", "1", "M", "I", "C", "R", "O", "N", "S", " ", "0", "\r", "\n">>
    /\ Terminated(wire[2].data)
    /\ wire[5].data = <<" ", "4", "2", "\r", "\n">>
    /\ result.exc = "none"
    /\ result.ret = IntVal(42)

\* every argument with one space before it
RECURSIVE Spaced(_)
Spaced(args) ==
    IF args = <<>> THEN <<>> ELSE <<" ">> \o args[1] \o Spaced(Tail(args))

\* C17 as stated: command(name, a1, ..., an) writes the name and each argument
\* with exactly one space before it, and nothing else before the terminator;
\* abort() writes the bare 'ABORT' and the terminator.
C17_CommandWireBare ==
    /\ (call.op = "command" /\ call.pre = "open") =>
          wire[1].data = upper(call.text \o Spaced(call.args)) \o <<"\r", "\n">>
    /\ (call.op = "abort" /\ call.pre = "open") => wire[1].data = <<"A", "B", "O", "R", "T", "\r", "\n">>

\* C17 as amended: command(name, a1, ..., an) writes the name, one space, and
\* the arguments with one space between them; without arguments the name is
\* followed by that one space, so abort() writes 'ABORT ' and the terminator.
C17_CommandWireSpace ==
    /\ (call.op = "command" /\ call.pre = "open") =>
          wire[1].data = upper(IF call.args = <<>> THEN call.text \o <<" ">>
                               ELSE call.text \o Spaced(call.args)) \o <<"\r", "\n">>
    /\ (call.op = "abort" /\ call.pre = "open") => wire[1].data = <<"A", "B", "O", "R", "T", " ", "\r", "\n">>

C17_Witness ==
    /\ call.op = "abort" /\ call.pre = "open"
    /\ Evs = <<"write", "read">>
    /\ wire[1].data = <<"A", "B", "O", "R", "T", " ", "\r", "\n">>

\* C18: query('') on an open transport writes the statement '?' and then reads
\* two lines; it does not fail before the write.
C18_EmptyQuery ==
    (call.op = "query" /\ call.text = <<>> /\ call.pre = "open") =>
        /\ Evs = <<"write", "read", "read">>
        /\ wire[1].data = <<"?", "\r", "\n">>
        /\ result.exc = "none"

\* a numeric or grating getter has raised on the payload the device sent
ParseFailure ==
    /\ call.op \in {"position", "filter", "outport", "slit_width", "grating"}
    /\ result.exc \in {"ValueError", "IndexError"}
    /\ Len(wire) >= 3
    /\ AllOk /\ NoTimeout

\* the query of the last method call is complete: a write and the reads of both
\* lines, and nothing left unread
Consumed ==
    /\ Len(wire) >= 3
    /\ wire[Len(wire) - 2].ev = "write"
    /\ wire[Len(wire) - 1].ev = "read"
    /\ wire[Len(wire)].ev = "read"
    /\ wire[Len(wire)].data # wire[Len(wire) - 2].data
    /\ inbuf = <<>>

\* a statement without its question mark
Unasked(s) == IF s # <<>> /\ s[Len(s)] = "?" THEN SubSeq(s, 1, Len(s) - 1) ELSE s

\* every line read right after a write is the device's answer to that write (its
\* echo or its acknowledgement, or nothing at the timeout), not a line left over
FreshReads ==
    \A i \in 2..Len(wire) :
        (wire[i].ev = "read" /\ wire[i - 1].ev = "write" /\ wire[i].ok) =>
            \/ wire[i].data = <<>>
            \/ rstrip(wire[i].data) \in {rstrip(wire[i - 1].data),
                                         Unasked(rstrip(wire[i - 1].data)), <<"o", "k">>}

\* C19: when a numeric or grating getter raises on a malformed payload, both
\* lines of its query have been read and none is left, and the reads of the
\* method called next return the lines the device sent for that method.
C19_ParseFailureKeepsSync ==
    /\ [](ParseFailure => Consumed)
    /\ [][ParseFailure => FreshReads']_vars

C19_Witness ==
    /\ call.op = "grating"
    /\ result.exc = "IndexError"
    /\ wire[3].data = <<"1", ",", "1", "2", "0", "0", "\r", "\n">>
    /\ inbuf = <<>>

\* C20: the transport is open when construction returns, so a method called
\* first makes its exchange; connect() calls the transport's open() every time,
\* also on an open transport, and leaves it open when open() can succeed;
\* disconnect() leaves it closed; no other method changes it.
C20_Lifecycle ==
    /\ []((call.op = "__init__" /\ result.exc = "none") => com = "open")
    /\ [](call.op = "connect" =>
              /\ Evs = <<"open">>
              /\ com = IF call.given THEN "open" ELSE call.pre)
    /\ [](call.op = "disconnect" => com = "closed")
    /\ []((Live /\ call.op \notin {"__init__", "connect", "disconnect"}) =>
              com = call.pre)
    /\ [][(call.op = "__init__" /\ result.exc = "none" /\ call'.op = "shuttered") =>
              (Evs' = <<"write", "read", "read">> /\ AllOk')]_vars

C20_Witness ==
    /\ call.op = "connect" /\ call.pre = "open"
    /\ Evs = <<"open">>
    /\ com = "open"

============================================================================
